---- MODULE Spec2Model ----
(***************************************************************************)
(* A model of symcpp (src/include/expression.hpp, lines 1-738: the part    *)
(* of the header the include guard keeps): the numeric domain, the         *)
(* expression nodes with eval / diff / to_string, the simplifying          *)
(* operators of Expression, and parse_expression.                          *)
(*                                                                         *)
(* Nodes live in `heap`, a sequence of node records; an Expression handle  *)
(* is the index of its node (its impl pointer), 0 for the empty handle.    *)
(* Domain values are exact rationals (pairs re/im); a value libm computes  *)
(* that is not such a rational (sin 2, ln 0 = -inf, ...) is an opaque      *)
(* term "sym" that records how it was computed; adding 0 to it and         *)
(* multiplying it by 1 give it back, as in IEEE arithmetic.  Floating-     *)
(* point rounding of rational arithmetic is not modelled.                  *)
(***************************************************************************)
EXTENDS Integers, Sequences, FiniteSets, TLC

VARIABLES domain, heap, call, ret

vars == <<domain, heap, call, ret>>

----------------------------------------------------------------------------
(* Bounds of the model.                                                    *)

\* The builder actions stop allocating once the heap holds MaxNodes nodes.
MaxNodes == 3

\* Literals offered to the constructor Expression(T) are 0 .. MaxLit.
MaxLit == 2

\* A rational is computed exactly while its numerator and denominator are
\* at most MaxExact; a value beyond that is kept as the operation that
\* gave it, except that a value nearer to zero than 1/MaxExact underflows
\* to zero, as a long double below the smallest subnormal does.
MaxExact == 30000

----------------------------------------------------------------------------
(* The numeric domain: Reals_t and Complexes_t.                            *)

Abs(n) == IF n < 0 THEN -n ELSE n

RECURSIVE Gcd(_, _)
Gcd(a, b) == IF b = 0 THEN a ELSE Gcd(b, a % b)

\* What stands for a rational that is not computed: no denominator.
Inexact == [n |-> 0, d |-> 0]
IsExact(a) == a.d # 0

\* A rational n/d in lowest terms with a positive denominator.
Q(n, d) ==
    LET g == Gcd(Abs(n), Abs(d))
        s == IF d < 0 THEN -1 ELSE 1
    IN  IF d = 0 \/ Abs(n) \div g > MaxExact THEN Inexact
        ELSE IF Abs(d) \div g > MaxExact
        THEN IF Abs(n) * MaxExact < Abs(d) THEN [n |-> 0, d |-> 1]
             ELSE Inexact
        ELSE [n |-> (s * n) \div g, d |-> (s * d) \div g]

QInt(n) == [n |-> n, d |-> 1]
QAdd(a, b) ==
    IF IsExact(a) /\ IsExact(b)
    THEN Q(a.n * b.d + b.n * a.d, a.d * b.d) ELSE Inexact
QSub(a, b) ==
    IF IsExact(a) /\ IsExact(b)
    THEN Q(a.n * b.d - b.n * a.d, a.d * b.d) ELSE Inexact
QMul(a, b) ==
    IF IsExact(a) /\ IsExact(b) THEN Q(a.n * b.n, a.d * b.d) ELSE Inexact
QDiv(a, b) ==
    IF IsExact(a) /\ IsExact(b) THEN Q(a.n * b.d, a.d * b.n) ELSE Inexact
QIsInt(a) == a.d = 1

RECURSIVE QPowAcc(_, _, _)
QPowAcc(acc, a, k) ==
    IF k = 0 \/ ~IsExact(acc) THEN acc ELSE QPowAcc(QMul(acc, a), a, k - 1)

\* a^k for a natural k
QPowNat(a, k) ==
    IF k = 0 \/ a = QInt(1) THEN QInt(1)
    ELSE IF a = QInt(0) THEN QInt(0)
    ELSE IF a = QInt(-1) THEN QInt(IF k % 2 = 0 THEN 1 ELSE -1)
    ELSE QPowAcc(QInt(1), a, k)

\* A domain value: the complex number re + im*i; a Reals_t value has im = 0.
Num(re, im) == [k |-> "num", re |-> re, im |-> im]

\* A value that is no exact rational: the libm call f applied to a.
Sym(f, a) == [k |-> "sym", f |-> f, a |-> a]

\* re + im*i where both are computed, f applied to a otherwise.
NumOr(re, im, f, a) ==
    IF IsExact(re) /\ IsExact(im) THEN Num(re, im) ELSE Sym(f, a)

\* _Domain(n) for an integer n, in either domain.
FromInt(n) == Num(QInt(n), QInt(0))

Zero == FromInt(0)
One == FromInt(1)

\* Complexes_t(0, 1)
ImagUnit == Num(QInt(0), QInt(1))

IsNum(v) == v.k = "num"
IsZero(v) == v = Zero
IsOne(v) == v = One
IsRealNum(v) == IsNum(v) /\ v.im = QInt(0)

\* Complexes_t::operator long double(): the real part.
real(v) == IF IsNum(v) THEN Num(v.re, QInt(0)) ELSE Sym("real", <<v>>)

\* _Domain(c) for a Complexes_t c: the value itself in the complex domain,
\* its real part (explicit operator long double) in the real domain.
DomainOf(dom, c) == IF dom = "C" THEN c ELSE real(c)

ValAdd(a, b) ==
    IF IsNum(a) /\ IsNum(b)
    THEN NumOr(QAdd(a.re, b.re), QAdd(a.im, b.im), "+", <<a, b>>)
    ELSE IF IsZero(a) THEN b
    ELSE IF IsZero(b) THEN a
    ELSE Sym("+", <<a, b>>)

ValSub(a, b) ==
    IF IsNum(a) /\ IsNum(b)
    THEN NumOr(QSub(a.re, b.re), QSub(a.im, b.im), "-", <<a, b>>)
    ELSE IF IsZero(b) THEN a
    ELSE Sym("-", <<a, b>>)

ValMul(a, b) ==
    IF IsNum(a) /\ IsNum(b)
    THEN NumOr(QSub(QMul(a.re, b.re), QMul(a.im, b.im)),
               QAdd(QMul(a.re, b.im), QMul(a.im, b.re)), "*", <<a, b>>)
    ELSE IF IsOne(a) THEN b
    ELSE IF IsOne(b) THEN a
    ELSE Sym("*", <<a, b>>)

\* a / b; a zero divisor gives inf or nan, which is no rational.
ValDiv(a, b) ==
    IF IsNum(a) /\ IsNum(b) /\ ~IsZero(b)
    THEN LET m == QAdd(QMul(b.re, b.re), QMul(b.im, b.im))
         IN  NumOr(QDiv(QAdd(QMul(a.re, b.re), QMul(a.im, b.im)), m),
                   QDiv(QSub(QMul(a.im, b.re), QMul(a.re, b.im)), m),
                   "/", <<a, b>>)
    ELSE IF IsOne(b) THEN a
    ELSE Sym("/", <<a, b>>)

\* std::pow.  Reals: exact for an integer exponent (pow(x, 0) = 1 for every
\* x, pow(0, negative) = inf); complexes: exp(y * log(x)) unless x = 0,
\* exact only where log and exp are.
std_pow(dom, a, b) ==
    IF dom = "R"
    THEN IF IsZero(b) \/ IsOne(a) THEN One
         ELSE IF IsRealNum(a) /\ IsRealNum(b) /\ QIsInt(b.re)
                 /\ ~(IsZero(a) /\ b.re.n < 0)
         THEN IF b.re.n >= 0
              THEN NumOr(QPowNat(a.re, b.re.n), QInt(0), "pow", <<a, b>>)
              ELSE NumOr(QDiv(QInt(1), QPowNat(a.re, -b.re.n)), QInt(0),
                         "pow", <<a, b>>)
         ELSE Sym("pow", <<a, b>>)
    ELSE IF IsZero(a) /\ IsZero(b) THEN Sym("pow", <<a, b>>)
         ELSE IF IsZero(a) THEN Zero
         ELSE IF IsNum(a) /\ IsNum(b) /\ (IsZero(b) \/ IsOne(a)) THEN One
         ELSE Sym("pow", <<a, b>>)

std_sin(a) == IF IsZero(a) THEN Zero ELSE Sym("sin", <<a>>)
std_cos(a) == IF IsZero(a) THEN One ELSE Sym("cos", <<a>>)
std_exp(a) == IF IsZero(a) THEN One ELSE Sym("exp", <<a>>)
std_log(a) == IF IsOne(a) THEN Zero ELSE Sym("log", <<a>>)

----------------------------------------------------------------------------
(* Nodes and handles.                                                      *)

ValueNode(v) == [kind |-> "Value", value |-> v]
VariableNode(name) == [kind |-> "Variable", variable |-> name]
BinaryNode(kind, lhs, rhs) == [kind |-> kind, lhs |-> lhs, rhs |-> rhs]
UnaryNode(kind, e) == [kind |-> kind, expr |-> e]

BinaryKinds == {"Add", "Subtract", "Multiply", "Divide", "Power"}
UnaryKinds == {"Sin", "Cos", "Ln", "Exp"}

\* The outcome of a call that builds an expression: the heap after it, the
\* handle returned, and the exception thrown ("none" when it returns).
Ret(h, e) == [heap |-> h, res |-> e, err |-> "none"]
Throw(h, e) == [heap |-> h, res |-> 0, err |-> e]

\* std::make_shared of a node: a fresh node, and the handle to it.
Alloc(h, node) == Ret(Append(h, node), Len(h) + 1)

\* Expression(T value)
MkValue(h, v) == Alloc(h, ValueNode(v))

\* Expression(const std::string&)
MkVariable(h, name) == Alloc(h, VariableNode(name))

\* std::dynamic_pointer_cast<Value<_Domain>>(impl) is not null
IsValue(h, e) == e # 0 /\ h[e].kind = "Value"

\* valuePtr && valuePtr->getValue() == _Domain(n)
IsValueZero(h, e) == IsValue(h, e) /\ IsZero(h[e].value)
IsValueOne(h, e) == IsValue(h, e) /\ IsOne(h[e].value)

----------------------------------------------------------------------------
(* The simplifying operators of Expression.  `this` and `other` are        *)
(* handles; the result is the heap after the call and the handle returned. *)

\* Expression::operator+
OpPlus(h, this, other) ==
    IF IsValue(h, this) /\ IsValue(h, other)
    THEN MkValue(h, ValAdd(h[this].value, h[other].value))
    ELSE IF IsValueZero(h, this) THEN Ret(h, other)
    ELSE IF IsValueZero(h, other) THEN Ret(h, this)
    ELSE Alloc(h, BinaryNode("Add", this, other))

\* A subtraction that keeps no identity: e - 0 allocates a Subtract node.
OpMinusNoIdentity(h, this, other) ==
    IF IsValue(h, this) /\ IsValue(h, other)
    THEN MkValue(h, ValSub(h[this].value, h[other].value))
    ELSE Alloc(h, BinaryNode("Subtract", this, other))

\* Expression::operator-
OpMinus(h, this, other) ==
    IF IsValue(h, this) /\ IsValue(h, other)
    THEN MkValue(h, ValSub(h[this].value, h[other].value))
    ELSE IF IsValueZero(h, other) THEN Ret(h, this)
    ELSE Alloc(h, BinaryNode("Subtract", this, other))

\* A product that simplifies e * 0 in place: the node of `this` becomes
\* the Literal 0.
OpTimesInPlace(h, this, other) ==
    IF IsValue(h, this) /\ IsValue(h, other)
    THEN MkValue(h, ValMul(h[this].value, h[other].value))
    ELSE IF IsValueOne(h, this) THEN Ret(h, other)
    ELSE IF IsValueOne(h, other) THEN Ret(h, this)
    ELSE IF IsValueZero(h, this) \/ IsValueZero(h, other)
    THEN Ret([h EXCEPT ![this] = ValueNode(FromInt(0))], this)
    ELSE Alloc(h, BinaryNode("Multiply", this, other))

\* Expression::operator*
OpTimes(h, this, other) ==
    IF IsValue(h, this) /\ IsValue(h, other)
    THEN MkValue(h, ValMul(h[this].value, h[other].value))
    ELSE IF IsValueOne(h, this) THEN Ret(h, other)
    ELSE IF IsValueOne(h, other) THEN Ret(h, this)
    ELSE IF IsValueZero(h, this) \/ IsValueZero(h, other)
    THEN MkValue(h, FromInt(0))
    ELSE Alloc(h, BinaryNode("Multiply", this, other))

\* A division that folds two literals before it looks at the divisor.
OpDivideFoldFirst(h, this, other) ==
    IF IsValue(h, this) /\ IsValue(h, other)
    THEN MkValue(h, ValDiv(h[this].value, h[other].value))
    ELSE IF IsValueZero(h, other) THEN Throw(h, "DivisionByZero")
    ELSE IF IsValueOne(h, other) THEN Ret(h, this)
    ELSE IF IsValueZero(h, this) THEN MkValue(h, FromInt(0))
    ELSE Alloc(h, BinaryNode("Divide", this, other))

\* Expression::operator/
OpDivide(h, this, other) ==
    IF IsValueZero(h, other) THEN Throw(h, "DivisionByZero")
    ELSE IF IsValue(h, this) /\ IsValue(h, other)
    THEN MkValue(h, ValDiv(h[this].value, h[other].value))
    ELSE IF IsValueOne(h, other) THEN Ret(h, this)
    ELSE IF IsValueZero(h, this) THEN MkValue(h, FromInt(0))
    ELSE Alloc(h, BinaryNode("Divide", this, other))

\* Expression::pow
pow(dom, h, this, other) ==
    IF IsValue(h, this) /\ IsValue(h, other)
    THEN MkValue(h, std_pow(dom, h[this].value, h[other].value))
    ELSE IF IsValueZero(h, this) THEN MkValue(h, FromInt(1))
    ELSE IF IsValueOne(h, other) THEN Ret(h, this)
    ELSE Alloc(h, BinaryNode("Power", this, other))

\* A sine that makes its Sin node whatever the argument is.
sinUnfolded(h, this) == Alloc(h, UnaryNode("Sin", this))

\* Expression::sin
sin(h, this) ==
    IF IsValue(h, this) THEN MkValue(h, std_sin(h[this].value))
    ELSE Alloc(h, UnaryNode("Sin", this))

\* Expression::cos
cos(h, this) ==
    IF IsValue(h, this) THEN MkValue(h, std_cos(h[this].value))
    ELSE Alloc(h, UnaryNode("Cos", this))

\* Expression::ln
ln(h, this) ==
    IF IsValue(h, this) THEN MkValue(h, std_log(h[this].value))
    ELSE Alloc(h, UnaryNode("Ln", this))

\* Expression::exp
exp(h, this) ==
    IF IsValue(h, this) THEN MkValue(h, std_exp(h[this].value))
    ELSE Alloc(h, UnaryNode("Exp", this))

\* The binary operator the parser and the builder select by its symbol.
ApplyOp(dom, h, op, lhs, rhs) ==
    CASE op = "+" -> OpPlus(h, lhs, rhs)
      [] op = "-" -> OpMinus(h, lhs, rhs)
      [] op = "*" -> OpTimes(h, lhs, rhs)
      [] op = "/" -> OpDivide(h, lhs, rhs)
      [] op = "^" -> pow(dom, h, lhs, rhs)

\* The unary function selected by its name (the `functions` table).
ApplyFn(h, f, arg) ==
    CASE f = "sin" -> sin(h, arg)
      [] f = "cos" -> cos(h, arg)
      [] f = "ln" -> ln(h, arg)
      [] f = "exp" -> exp(h, arg)


----------------------------------------------------------------------------
(* diff.  The operands of a C++ operator are evaluated in an unspecified   *)
(* order; the model evaluates them left to right, which fixes only the     *)
(* order in which the new nodes are allocated, not the tree that is built. *)

RECURSIVE diff(_, _, _, _)

\* The temporaries of one diff body, in the order they are made: the heap,
\* the exception thrown if any, and the handles not yet consumed.
Temps(h) == [heap |-> h, err |-> "none", tmp |-> <<>>]

\* An operand that is a member of the node: lhs, rhs or expr.
Load(t, e) == IF t.err # "none" THEN t ELSE [t EXCEPT !.tmp = Append(@, e)]

\* Expression<_Domain>(value)
Literal(t, value) ==
    IF t.err # "none" THEN t
    ELSE [t EXCEPT !.heap = Append(@, ValueNode(value)),
                   !.tmp = Append(@, Len(t.heap) + 1)]

\* What a call leaves among the temporaries, the k it consumed removed.
Store(t, k, r) ==
    [heap |-> r.heap, err |-> r.err,
     tmp |-> Append(SubSeq(t.tmp, 1, Len(t.tmp) - k), r.res)]

\* e.diff(variable) for a member e of the node
Derive(dom, t, e, variable) ==
    IF t.err # "none" THEN t
    ELSE Store(t, 0, diff(dom, t.heap, e, variable))

\* a OP b for the two temporaries made last
Bin(dom, t, op) ==
    IF t.err # "none" THEN t
    ELSE Store(t, 2, ApplyOp(dom, t.heap, op, t.tmp[Len(t.tmp) - 1],
                             t.tmp[Len(t.tmp)]))

\* a.f() for the temporary made last
Fn(t, f) ==
    IF t.err # "none" THEN t
    ELSE Store(t, 1, ApplyFn(t.heap, f, t.tmp[Len(t.tmp)]))

\* The value of the return statement.
Return(t) ==
    IF t.err # "none" THEN Throw(t.heap, t.err)
    ELSE Ret(t.heap, t.tmp[Len(t.tmp)])

\* Value::diff
ValueDiff(h) == MkValue(h, Zero)

\* Variable::diff
VariableDiff(h, n, variable) ==
    IF n.variable = variable THEN MkValue(h, One) ELSE MkValue(h, Zero)

\* The state after the last of the steps, each step made once and in order.
InOrder(steps) == steps[Len(steps)]

\* lhs.diff(variable), rhs.diff(variable)
BothDiffs(dom, h, n, variable) ==
    LET a == Derive(dom, Temps(h), n.lhs, variable)
        b == Derive(dom, a, n.rhs, variable)
    IN  InOrder(<<a, b>>)

\* A sum rule that differentiates the left operand only.
AddDiffLeft(dom, h, n, variable) ==
    Return(Derive(dom, Temps(h), n.lhs, variable))

\* A sum rule that makes its Add node itself, without operator+.
AddDiffUnsimplified(dom, h, n, variable) ==
    LET t == BothDiffs(dom, h, n, variable)
    IN  IF t.err # "none" THEN Throw(t.heap, t.err)
        ELSE Alloc(t.heap, BinaryNode("Add", t.tmp[Len(t.tmp) - 1],
                                      t.tmp[Len(t.tmp)]))

\* Add::diff
AddDiff(dom, h, n, variable) ==
    Return(Bin(dom, BothDiffs(dom, h, n, variable), "+"))

\* Subtract::diff
SubtractDiff(dom, h, n, variable) ==
    Return(Bin(dom, BothDiffs(dom, h, n, variable), "-"))

\* lhs.diff(variable) * rhs, lhs * rhs.diff(variable)
CrossProducts(dom, h, n, variable) ==
    LET a == Derive(dom, Temps(h), n.lhs, variable)
        b == Bin(dom, Load(a, n.rhs), "*")
        c == Derive(dom, Load(b, n.lhs), n.rhs, variable)
        d == Bin(dom, c, "*")
    IN  InOrder(<<a, b, c, d>>)

\* A product rule that multiplies the two derivatives.
MultiplyDiffNaive(dom, h, n, variable) ==
    Return(Bin(dom, BothDiffs(dom, h, n, variable), "*"))

\* Multiply::diff
MultiplyDiff(dom, h, n, variable) ==
    Return(Bin(dom, CrossProducts(dom, h, n, variable), "+"))

\* Divide::diff
DivideDiff(dom, h, n, variable) ==
    LET num == Bin(dom, CrossProducts(dom, h, n, variable), "-")
        den == Bin(dom, Load(Load(num, n.rhs), n.rhs), "*")
        quo == Bin(dom, den, "/")
    IN  Return(InOrder(<<num, den, quo>>))

\* The power rule of a constant exponent: r * l^(r - 1) * diff(l).
PowerDiffConstant(dom, h, n, variable) ==
    LET e == Bin(dom, Literal(Load(Load(Load(Temps(h), n.rhs), n.lhs), n.rhs),
                              FromInt(1)), "-")
        p == Bin(dom, e, "^")
        q == Bin(dom, p, "*")
        d == Derive(dom, q, n.lhs, variable)
        r == Bin(dom, d, "*")
    IN  Return(InOrder(<<e, p, q, d, r>>))

\* Power::diff
PowerDiff(dom, h, n, variable) ==
    LET p == Bin(dom, Load(Load(Temps(h), n.lhs), n.rhs), "^")
        dr == Derive(dom, p, n.rhs, variable)
        l == Fn(Load(dr, n.lhs), "ln")
        a == Bin(dom, l, "*")
        dl == Derive(dom, Load(a, n.rhs), n.lhs, variable)
        b == Bin(dom, dl, "*")
        c == Bin(dom, Load(b, n.lhs), "/")
        s == Bin(dom, c, "+")
        r == Bin(dom, s, "*")
    IN  Return(InOrder(<<p, dr, l, a, dl, b, c, s, r>>))

\* Sin::diff
SinDiff(dom, h, n, variable) ==
    LET c == Fn(Load(Temps(h), n.expr), "cos")
        d == Derive(dom, c, n.expr, variable)
    IN  Return(Bin(dom, InOrder(<<c, d>>), "*"))

\* Cos::diff
CosDiff(dom, h, n, variable) ==
    LET s == Fn(Load(Literal(Temps(h), FromInt(-1)), n.expr), "sin")
        a == Bin(dom, s, "*")
        d == Derive(dom, a, n.expr, variable)
    IN  Return(Bin(dom, InOrder(<<s, a, d>>), "*"))

\* A logarithm rule that divides the derivative of the argument by the
\* argument.
LnDiffQuotient(dom, h, n, variable) ==
    Return(Bin(dom, Load(Derive(dom, Temps(h), n.expr, variable), n.expr),
               "/"))

\* Ln::diff
LnDiff(dom, h, n, variable) ==
    LET q == Bin(dom, Load(Literal(Temps(h), FromInt(1)), n.expr), "/")
        d == Derive(dom, q, n.expr, variable)
    IN  Return(Bin(dom, InOrder(<<q, d>>), "*"))

\* Exp::diff
ExpDiff(dom, h, n, variable) ==
    Return(Bin(dom, Derive(dom, Load(Temps(h), n.expr), n.expr, variable),
               "*"))

\* Expression::diff, and the virtual call it makes
diff(dom, h, e, variable) ==
    IF e = 0 THEN MkValue(h, Zero)
    ELSE LET n == h[e]
         IN  CASE n.kind = "Value" -> ValueDiff(h)
               [] n.kind = "Variable" -> VariableDiff(h, n, variable)
               [] n.kind = "Add" -> AddDiff(dom, h, n, variable)
               [] n.kind = "Subtract" -> SubtractDiff(dom, h, n, variable)
               [] n.kind = "Multiply" -> MultiplyDiff(dom, h, n, variable)
               [] n.kind = "Divide" -> DivideDiff(dom, h, n, variable)
               [] n.kind = "Power" -> PowerDiff(dom, h, n, variable)
               [] n.kind = "Sin" -> SinDiff(dom, h, n, variable)
               [] n.kind = "Cos" -> CosDiff(dom, h, n, variable)
               [] n.kind = "Ln" -> LnDiff(dom, h, n, variable)
               [] n.kind = "Exp" -> ExpDiff(dom, h, n, variable)

----------------------------------------------------------------------------
(* eval.  An evaluation ends with a value or with an exception.  Where the *)
(* two operands of an operator are evaluated in an unspecified order and   *)
(* both throw, either exception can be the one reported: eval gives the    *)
(* set of possible outcomes.                                               *)

Val(v) == [err |-> "none", val |-> v]
Fail(e) == [err |-> e, val |-> Zero]

\* a OP b on two values, for the node kinds that compute it directly.
Arith(dom, kind, a, b) ==
    CASE kind = "Add" -> ValAdd(a, b)
      [] kind = "Subtract" -> ValSub(a, b)
      [] kind = "Multiply" -> ValMul(a, b)
      [] kind = "Power" -> std_pow(dom, a, b)

\* lhs.eval(variables) OP rhs.eval(variables), in either order.
Both(dom, kind, A, B) ==
    UNION {{IF p[1].err # "none" THEN p[1] ELSE IF p[2].err # "none" THEN p[2]
               ELSE Val(Arith(dom, kind, p[1].val, p[2].val)),
            IF p[2].err # "none" THEN p[2] ELSE IF p[1].err # "none" THEN p[1]
               ELSE Val(Arith(dom, kind, p[1].val, p[2].val))} : p \in A \X B}

\* std::sin, std::cos, std::exp by the kind of the node
Libm(kind, a) ==
    CASE kind = "Sin" -> std_sin(a)
      [] kind = "Cos" -> std_cos(a)
      [] kind = "Exp" -> std_exp(a)

\* f(expr.eval(variables))
Through(kind, A) ==
    {IF a.err # "none" THEN a ELSE Val(Libm(kind, a.val)) : a \in A}

\* A lookup that resolves "i" before it reads the bindings.
VariableEvalBuiltinFirst(dom, n, variables) ==
    IF n.variable = "i" THEN {Val(DomainOf(dom, ImagUnit))}
    ELSE IF n.variable \in DOMAIN variables THEN {Val(variables[n.variable])}
    ELSE {Fail("UnboundVariable")}

\* Variable::eval
VariableEval(dom, n, variables) ==
    IF n.variable \in DOMAIN variables THEN {Val(variables[n.variable])}
    ELSE IF n.variable = "i" THEN {Val(DomainOf(dom, ImagUnit))}
    ELSE {Fail("UnboundVariable")}

\* A division that does not test its divisor.
DivideEvalUnchecked(L, R) ==
    UNION {IF b.err # "none" THEN {b}
           ELSE {IF a.err # "none" THEN a ELSE Val(ValDiv(a.val, b.val))
                    : a \in L} : b \in R}

\* A division that evaluates its dividend before its divisor.
DivideEvalDividendFirst(L, R) ==
    UNION {IF a.err # "none" THEN {a}
           ELSE {IF b.err # "none" THEN b
                 ELSE IF b.val = Zero THEN Fail("DivisionByZero")
                 ELSE Val(ValDiv(a.val, b.val)) : b \in R} : a \in L}

\* Divide::eval: the divisor first, then the test, then the dividend.
DivideEval(L, R) ==
    UNION {IF b.err # "none" THEN {b}
           ELSE IF b.val = Zero THEN {Fail("DivisionByZero")}
           ELSE {IF a.err # "none" THEN a ELSE Val(ValDiv(a.val, b.val))
                    : a \in L} : b \in R}

\* The test of Ln::eval: real() <= 0 for a complex, <= 0 for a real.  The
\* sign of a value that is no exact rational is not computed: both outcomes
\* of the test are kept for it.
NonPositive(v) == IF IsNum(v) THEN {v.re.n <= 0} ELSE {TRUE, FALSE}

\* A logarithm that does not test its argument.
LnEvalUnchecked(A) ==
    {IF a.err # "none" THEN a ELSE Val(std_log(a.val)) : a \in A}

\* Ln::eval
LnEval(A) ==
    UNION {IF a.err # "none" THEN {a}
           ELSE {IF np THEN Fail("DomainError") ELSE Val(std_log(a.val))
                    : np \in NonPositive(a.val)} : a \in A}

RECURSIVE eval(_, _, _, _)
\* Expression::eval, and the virtual call it makes
eval(dom, h, e, variables) ==
    IF e = 0 THEN {Val(Zero)}
    ELSE LET n == h[e]
             l == eval(dom, h, n.lhs, variables)
             r == eval(dom, h, n.rhs, variables)
             x == eval(dom, h, n.expr, variables)
         IN  CASE n.kind = "Value" -> {Val(n.value)}
               [] n.kind = "Variable" -> VariableEval(dom, n, variables)
               [] n.kind \in {"Add", "Subtract", "Multiply", "Power"} ->
                     Both(dom, n.kind, l, r)
               [] n.kind = "Divide" -> DivideEval(l, r)
               [] n.kind \in {"Sin", "Cos", "Exp"} -> Through(n.kind, x)
               [] n.kind = "Ln" -> LnEval(x)

----------------------------------------------------------------------------
(* to_string.                                                              *)

Digit(d) == SubSeq("0123456789", d + 1, d + 1)

RECURSIVE NatToString(_)
NatToString(n) ==
    IF n < 10 THEN Digit(n) ELSE NatToString(n \div 10) \o Digit(n % 10)

RECURSIVE Pad(_, _)
\* the decimal digits of n, zero-filled on the left to w digits
Pad(n, w) == IF w = 0 THEN "" ELSE Pad(n \div 10, w - 1) \o Digit(n % 10)

\* The digits "%Lf" prints after the point.
Precision == 6

RECURSIVE Pow10(_)
Pow10(k) == IF k = 0 THEN 1 ELSE 10 * Pow10(k - 1)

RECURSIVE Fraction(_, _, _, _)
\* The first k decimal digits of r/d (r < d) after those of acc, and what
\* is left of r.
Fraction(r, d, k, acc) ==
    IF k = 0 THEN <<acc, r>>
    ELSE Fraction((r * 10) % d, d, k - 1, acc * 10 + (r * 10) \div d)

\* std::to_string(long double): "%Lf", Precision digits after the point,
\* rounded to nearest.
RealToString(q) ==
    LET f == Fraction(Abs(q.n) % q.d, q.d, Precision, 0)
        up == IF 2 * f[2] >= q.d THEN 1 ELSE 0
        carry == IF f[1] + up = Pow10(Precision) THEN 1 ELSE 0
    IN  (IF q.n < 0 THEN "-" ELSE "")
        \o NatToString(Abs(q.n) \div q.d + carry) \o "."
        \o Pad(IF carry = 1 THEN 0 ELSE f[1] + up, Precision)

RECURSIVE ValueToString(_, _)
\* Value::to_string; symcpp::to_string(const Complexes_t&) in the complex
\* domain.  A value that is no exact rational prints as what computed it.
ValueToString(dom, v) ==
    IF ~IsNum(v)
    THEN "<" \o v.f \o " " \o ValueToString(dom, v.a[1])
         \o (IF Len(v.a) > 1 THEN " " \o ValueToString(dom, v.a[2]) ELSE "")
         \o ">"
    ELSE IF dom = "C"
    THEN "(" \o RealToString(v.re) \o ", " \o RealToString(v.im) \o ")"
    ELSE RealToString(v.re)

\* The operator symbol a binary node prints, the name a unary node prints.
Symbol(kind) ==
    CASE kind = "Add" -> "+" [] kind = "Subtract" -> "-"
      [] kind = "Multiply" -> "*" [] kind = "Divide" -> "/"
      [] kind = "Power" -> "^" [] kind = "Sin" -> "sin"
      [] kind = "Cos" -> "cos" [] kind = "Ln" -> "ln" [] kind = "Exp" -> "exp"

RECURSIVE to_string(_, _, _)
\* Expression::to_string, and the virtual call it makes
to_string(dom, h, e) ==
    IF e = 0 THEN "null"
    ELSE LET n == h[e]
         IN  IF n.kind = "Value" THEN ValueToString(dom, n.value)
             ELSE IF n.kind = "Variable" THEN n.variable
             ELSE IF n.kind \in BinaryKinds
             THEN "(" \o to_string(dom, h, n.lhs) \o " " \o Symbol(n.kind)
                  \o " " \o to_string(dom, h, n.rhs) \o ")"
             ELSE Symbol(n.kind) \o "(" \o to_string(dom, h, n.expr) \o ")"

RECURSIVE Tree(_, _)
\* The tree a handle refers to, as a value: what two handles into different
\* heaps are compared by.
Tree(h, e) ==
    IF e = 0 THEN <<"null">>
    ELSE LET n == h[e]
         IN  IF n.kind = "Value" THEN <<"Value", n.value>>
             ELSE IF n.kind = "Variable" THEN <<"Variable", n.variable>>
             ELSE IF n.kind \in BinaryKinds
             THEN <<n.kind, Tree(h, n.lhs), Tree(h, n.rhs)>>
             ELSE <<n.kind, Tree(h, n.expr)>>

----------------------------------------------------------------------------
(* parse_expression.  The state of one call is a record st: the index i    *)
(* into the text (from 0, as in the source), the two stacks (top at the    *)
(* end), expect_operand, the heap, and err: "none" while the call runs     *)
(* normally, the exception it threw, or "UB" once it has read or popped    *)
(* the top of an empty stack, which is undefined behaviour.                *)

\* expr[i]
At(expr, i) == SubSeq(expr, i + 1, i + 1)

Digits == {"0", "1", "2", "3", "4", "5", "6", "7", "8", "9"}
Letters ==
    {"a", "b", "c", "d", "e", "f", "g", "h", "i", "j", "k", "l", "m",
     "n", "o", "p", "q", "r", "s", "t", "u", "v", "w", "x", "y", "z"}

isspace(c) == c = " "
isdigit(c) == c \in Digits
isalpha(c) == c \in Letters

DigitValue(c) == CHOOSE d \in 0..9 : Digit(d) = c

\* A precedence table turned upside down.
precedenceReversed(op) ==
    CASE op \in {"+", "-"} -> 3 [] op \in {"*", "/"} -> 2 [] op = "^" -> 1

\* the `precedence` table
precedence(op) ==
    CASE op \in {"+", "-"} -> 1 [] op \in {"*", "/"} -> 2 [] op = "^" -> 3

BinaryOps == {"+", "-", "*", "/", "^"}

\* the keys of the `functions` table
functions == {"sin", "cos", "ln", "exp"}

RECURSIVE RunEnd(_, _, _)
\* The index after the run that starts at i: while (i < expr.length() &&
\* pred(expr[i])) i++, pred being "digit or point" or "letter".
RunEnd(expr, i, numeric) ==
    IF i < Len(expr)
       /\ (IF numeric THEN isdigit(At(expr, i)) \/ At(expr, i) = "."
           ELSE isalpha(At(expr, i)))
    THEN RunEnd(expr, i + 1, numeric)
    ELSE i

RECURSIVE DigitsEnd(_, _)
\* The index after the digits of s that start at i.
DigitsEnd(s, i) ==
    IF i < Len(s) /\ isdigit(At(s, i)) THEN DigitsEnd(s, i + 1) ELSE i

RECURSIVE DigitsValue(_)
DigitsValue(s) ==
    IF s = "" THEN 0
    ELSE 10 * DigitsValue(SubSeq(s, 1, Len(s) - 1)) + DigitValue(At(s, Len(s) - 1))

\* std::stold on a run of digits and points: the longest prefix
\* digits [ . digits ] is converted; with no digit in it, std::stold throws
\* std::invalid_argument.
stold(s) ==
    LET ie == DigitsEnd(s, 0)
        fs == IF ie < Len(s) /\ At(s, ie) = "." THEN ie + 1 ELSE ie
        fe == DigitsEnd(s, fs)
        int == SubSeq(s, 1, ie)
        frac == SubSeq(s, fs + 1, fe)
    IN  IF int = "" /\ frac = "" THEN Fail("InvalidArgument")
        ELSE Val(Num(Q(DigitsValue(int) * Pow10(Len(frac)) + DigitsValue(frac),
                       Pow10(Len(frac))), QInt(0)))

Top(stack) == stack[Len(stack)]
Pop(stack) == SubSeq(stack, 1, Len(stack) - 1)

\* values.pop() twice, ops.pop(), values.push(r) for the result r of the
\* operator, or the exception it threw.
Applied2(st, r) ==
    [st EXCEPT !.ops = Pop(@), !.heap = r.heap, !.err = r.err,
               !.values = Append(SubSeq(@, 1, Len(st.values) - 2), r.res)]

\* The body of the three reduce loops: pop an operator and two operands,
\* push the result.  An operator that is none of + - * / ^ (a '(' left on
\* the stack when the input ends) pops its operands and pushes nothing.
ApplyTop(dom, st) ==
    IF Len(st.values) < 2 THEN [st EXCEPT !.err = "UB"]
    ELSE IF Top(st.ops) \in BinaryOps
    THEN Applied2(st, ApplyOp(dom, st.heap, Top(st.ops),
                              st.values[Len(st.values) - 1],
                              st.values[Len(st.values)]))
    ELSE [st EXCEPT !.ops = Pop(@),
                    !.values = SubSeq(@, 1, Len(st.values) - 2)]

RECURSIVE ReduceToParen(_, _)
\* while (!ops.empty() && ops.top() != '(') apply
ReduceToParen(dom, st) ==
    IF st.err = "none" /\ st.ops # <<>> /\ Top(st.ops) # "("
    THEN ReduceToParen(dom, ApplyTop(dom, st))
    ELSE st

RECURSIVE ReduceForStrict(_, _, _)
\* The reduce loop with > for >=: operators of equal precedence are left
\* on the stack, which groups them to the right.
ReduceForStrict(dom, st, c) ==
    IF st.err = "none" /\ st.ops # <<>> /\ Top(st.ops) # "("
       /\ precedence(Top(st.ops)) > precedence(c)
    THEN ReduceForStrict(dom, ApplyTop(dom, st), c)
    ELSE st

RECURSIVE ReduceFor(_, _, _)
\* while (!ops.empty() && ops.top() != '(' &&
\*        precedence[ops.top()] >= precedence[c]) apply
ReduceFor(dom, st, c) ==
    IF st.err = "none" /\ st.ops # <<>> /\ Top(st.ops) # "("
       /\ precedence(Top(st.ops)) >= precedence(c)
    THEN ReduceFor(dom, ApplyTop(dom, st), c)
    ELSE st

RECURSIVE Drain(_, _)
\* while (!ops.empty()) apply
Drain(dom, st) ==
    IF st.err = "none" /\ st.ops # <<>>
    THEN Drain(dom, ApplyTop(dom, st))
    ELSE st

RECURSIVE ArgEnd(_, _, _)
\* The scan for the ')' that closes a function call, from i with
\* brace_count open parentheses: the state <<i, brace_count>> it ends in.
ArgEnd(expr, i, brace_count) ==
    IF i + 1 < Len(expr) /\ brace_count > 0
    THEN LET c == At(expr, i + 1)
         IN  ArgEnd(expr, i + 1,
                    IF c = "(" THEN brace_count + 1
                    ELSE IF c = ")" THEN brace_count - 1 ELSE brace_count)
    ELSE <<i, brace_count>>


RECURSIVE parse_expression(_, _, _)

\* values.push(r) for the handle r a call returned; i is left on the last
\* character of the token.
PushResult(st, r, i) ==
    [st EXCEPT !.values = Append(@, r.res), !.heap = r.heap, !.err = r.err,
               !.expect_operand = FALSE, !.i = i]

\* if (!expect_operand) ops.push('*')
PushImplicitTimes(st) ==
    IF ~st.expect_operand THEN [st EXCEPT !.ops = Append(@, "*")] ELSE st

\* A sign read as 0 - operand: push Literal 0 and '-'.
UnaryMinusAsSubtraction(st) ==
    LET m == MkValue(st.heap, FromInt(0))
    IN  [st EXCEPT !.values = Append(@, m.res), !.ops = Append(@, "-"),
                   !.heap = m.heap, !.i = st.i + 1]

\* A '-' where an operand is expected: push Literal -1 and '*'
UnaryMinus(st) ==
    LET m == MkValue(st.heap, FromInt(-1))
    IN  [st EXCEPT !.values = Append(@, m.res), !.ops = Append(@, "*"),
                   !.heap = m.heap, !.i = st.i + 1]

\* values.push(Expression(v)) for the number v read up to e, or the
\* exception of std::stold; i = e is the last character after the ++i.
PushNumber(st, e, v) ==
    IF v.err # "none" THEN [st EXCEPT !.err = v.err]
    ELSE [st EXCEPT !.values = Append(@, Len(st.heap) + 1),
                    !.heap = Append(@, ValueNode(v.val)),
                    !.expect_operand = FALSE, !.i = e]

\* A run of digits and points: a numeric literal
NumberToken(expr, st) ==
    PushNumber(st, RunEnd(expr, st.i, TRUE),
               stold(SubSeq(expr, st.i + 1, RunEnd(expr, st.i, TRUE))))

\* values.push(functions[token](arg)) for the parsed argument arg, or the
\* exception its parse threw; the scan of the argument ended at fin.
PushCall(st, token, arg, fin) ==
    IF arg.err # "none" THEN [st EXCEPT !.err = arg.err, !.heap = arg.heap]
    ELSE PushResult(PushImplicitTimes(st), ApplyFn(arg.heap, token, arg.res),
                    fin + 1)

\* The argument is expr.substr(start, i - start), with i one past fin
\* where the scan ran out of text before the call was closed.
CallFunction(dom, expr, st, token, last, fin) ==
    PushCall(st, token,
             parse_expression(dom, st.heap,
                              SubSeq(expr, last + 3,
                                     IF fin[2] > 0 THEN fin[1] + 1
                                     ELSE fin[1])),
             fin[1])

\* A function name with no '(' after it read as the name of a variable.
FunctionTokenAsVariable(dom, expr, st, token, last) ==
    IF last + 1 < Len(expr) /\ At(expr, last + 1) = "("
    THEN CallFunction(dom, expr, st, token, last,
                      ArgEnd(expr, last + 1, 1))
    ELSE PushResult(PushImplicitTimes(st), MkVariable(st.heap, token),
                    last + 1)

\* A function name: its argument is the text up to the matching ')',
\* parsed by a recursive call
FunctionToken(dom, expr, st, token, last) ==
    IF last + 1 < Len(expr) /\ At(expr, last + 1) = "("
    THEN CallFunction(dom, expr, st, token, last,
                      ArgEnd(expr, last + 1, 1))
    ELSE [st EXCEPT !.err = "SyntaxError"]

\* Any other identifier: a variable
VariableToken(st, token, last) ==
    PushResult(PushImplicitTimes(st), MkVariable(st.heap, token), last + 1)

\* A run of letters
IdentifierToken(dom, expr, st) ==
    LET e == RunEnd(expr, st.i, FALSE)
        token == SubSeq(expr, st.i + 1, e)
    IN  IF token \in functions
        THEN FunctionToken(dom, expr, st, token, e - 1)
        ELSE VariableToken(st, token, e - 1)

\* '('
OpenParen(st) ==
    [PushImplicitTimes(st) EXCEPT !.ops = Append(@, "("),
                                  !.expect_operand = TRUE, !.i = st.i + 1]

\* ops.pop() after the reduce loop of ')'
PopParen(st) ==
    IF st.err # "none" THEN st
    ELSE IF st.ops = <<>> THEN [st EXCEPT !.err = "UB"]
    ELSE [st EXCEPT !.ops = Pop(@), !.expect_operand = FALSE, !.i = @ + 1]

\* ')': reduce to the '(' and pop it; ops.pop() on an empty stack is
\* undefined behaviour
CloseParen(dom, st) == PopParen(ReduceToParen(dom, st))

\* ops.push(c) after the reduce loop of a binary operator
PushOperator(st, c) ==
    IF st.err # "none" THEN st
    ELSE [st EXCEPT !.ops = Append(@, c), !.expect_operand = TRUE,
                    !.i = @ + 1]

\* One of + - * / ^
BinaryOperator(dom, st, c) == PushOperator(ReduceFor(dom, st, c), c)

\* One iteration of the token loop, the ++i of the for statement included.
\* A character no branch matches is passed over.
ParseStep(dom, expr, st) ==
    LET c == At(expr, st.i)
    IN  IF isspace(c) THEN [st EXCEPT !.i = st.i + 1]
        ELSE IF c = "-" /\ st.expect_operand THEN UnaryMinus(st)
        ELSE IF isdigit(c) \/ c = "." THEN NumberToken(expr, st)
        ELSE IF isalpha(c) THEN IdentifierToken(dom, expr, st)
        ELSE IF c = "(" THEN OpenParen(st)
        ELSE IF c = ")" THEN CloseParen(dom, st)
        ELSE IF c \in BinaryOps THEN BinaryOperator(dom, st, c)
        ELSE [st EXCEPT !.i = st.i + 1]

RECURSIVE ParseLoop(_, _, _)
\* for (size_t i = 0; i < expr.length(); ++i)
ParseLoop(dom, expr, st) ==
    IF st.err = "none" /\ st.i < Len(expr)
    THEN ParseLoop(dom, expr, ParseStep(dom, expr, st))
    ELSE st

\* return values.top()
ReturnTop(st) ==
    IF st.err # "none" THEN Throw(st.heap, st.err)
    ELSE IF st.values = <<>> THEN Throw(st.heap, "UB")
    ELSE Ret(st.heap, Top(st.values))

\* parse_expression: the token loop, the drain, and return values.top(),
\* which is undefined behaviour on an empty stack.
parse_expression(dom, h, expr) ==
    ReturnTop(Drain(dom, ParseLoop(dom, expr,
        [i |-> 0, values |-> <<>>, ops |-> <<>>, expect_operand |-> TRUE,
         heap |-> h, err |-> "none"])))

----------------------------------------------------------------------------
(* The state machine.  `call` is the last call made on the library and     *)
(* `ret` what it gave: the handle returned (res), the exception thrown     *)
(* (err), the value of an eval (val), the text of a to_string (str).       *)

\* The variable names in use; "i" is the one Variable::eval treats apart.
Names == {"x", "i"}

\* The literals offered to Expression(T).
Literals == 0..MaxLit

\* The maps eval is called with: any of the names bound to 0 or to 2.
BindValues == {FromInt(0), FromInt(2)}
Bindings == UNION {[S -> BindValues] : S \in SUBSET Names}

\* The handles a builder call can be given: every node built so far.
Handles == 1..Len(heap)

NoCall == [op |-> "none", lhs |-> 0, rhs |-> 0, name |-> "", text |-> "",
           variables |-> <<>>, pre |-> 0]
NoRet == [res |-> 0, err |-> "none", val |-> Zero, str |-> "", ub |-> FALSE]

\* Before any call: no node, and ret.res is the empty handle Expression().
Init ==
    /\ domain \in {"R", "C"}
    /\ heap = <<>>
    /\ call = NoCall
    /\ ret = NoRet

\* What a call that builds an expression leaves behind.
Built(c, r) ==
    /\ heap' = r.heap
    /\ call' = [c EXCEPT !.pre = Len(heap)]
    /\ ret' = [NoRet EXCEPT !.res = r.res, !.err = r.err]
    /\ UNCHANGED domain

\* eval and to_string leave the heap as it is, so what a program builds
\* after them it also builds without them: a run of the model ends there.
CanBuild == Len(heap) < MaxNodes /\ call.op \notin {"eval", "to_string"}

\* diff, eval and to_string are called on the handle the last call returned.
CanUse == ret.err = "none" /\ call.op \notin {"eval", "to_string"}

\* Expression(T value)
NewLiteral ==
    \E n \in Literals :
        /\ CanBuild
        /\ Built([NoCall EXCEPT !.op = "literal", !.name = NatToString(n)],
                 MkValue(heap, FromInt(n)))

\* Expression(const std::string&)
NewVariable ==
    \E name \in Names :
        /\ CanBuild
        /\ Built([NoCall EXCEPT !.op = "variable", !.name = name],
                 MkVariable(heap, name))

\* lhs + rhs, lhs - rhs, lhs * rhs, lhs / rhs, lhs.pow(rhs)
Binary ==
    \E op \in BinaryOps, lhs \in Handles, rhs \in Handles :
        /\ CanBuild
        /\ Built([NoCall EXCEPT !.op = op, !.lhs = lhs, !.rhs = rhs],
                 ApplyOp(domain, heap, op, lhs, rhs))

\* e.sin(), e.cos(), e.ln(), e.exp()
Unary ==
    \E f \in functions, e \in Handles :
        /\ CanBuild
        /\ Built([NoCall EXCEPT !.op = f, !.lhs = e], ApplyFn(heap, f, e))

\* e.diff(name)
DiffOf(e, name) ==
    Built([NoCall EXCEPT !.op = "diff", !.lhs = e, !.name = name],
          diff(domain, heap, e, name))

\* e.eval(variables)
EvalOf(e, variables) ==
    \E o \in eval(domain, heap, e, variables) :
        /\ call' = [NoCall EXCEPT !.op = "eval", !.lhs = e,
                                  !.variables = variables, !.pre = Len(heap)]
        /\ ret' = [NoRet EXCEPT !.res = e, !.err = o.err, !.val = o.val]
        /\ UNCHANGED <<domain, heap>>

\* e.to_string()
ToStringOf(e) ==
    /\ call' = [NoCall EXCEPT !.op = "to_string", !.lhs = e, !.pre = Len(heap)]
    /\ ret' = [NoRet EXCEPT !.res = e, !.str = to_string(domain, heap, e)]
    /\ UNCHANGED <<domain, heap>>

\* diff is called on a parsed expression, or on one within the bound.
DoDiff ==
    \E name \in Names :
        /\ CanUse
        /\ call.op = "parse" \/ Len(heap) <= MaxNodes
        /\ DiffOf(ret.res, name)

DoEval == \E variables \in Bindings : CanUse /\ EvalOf(ret.res, variables)

\* eval of an expression the operators built: nothing bound, x bound to 0,
\* or both names bound to 2.
BuiltBindings ==
    {b \in Bindings :
        \/ b = <<>>
        \/ DOMAIN b = {"x"} /\ b["x"] = FromInt(0)
        \/ DOMAIN b = Names /\ \A n \in Names : b[n] = FromInt(2)}
EvalBuilt ==
    \E variables \in BuiltBindings :
        CanUse /\ call.op # "diff" /\ EvalOf(ret.res, variables)

DoToString == CanUse /\ ToStringOf(ret.res)

Next ==
    \/ NewLiteral
    \/ NewVariable
    \/ Binary
    \/ Unary
    \/ DoDiff
    \/ EvalBuilt
    \/ DoToString

\* A program that builds expressions through the public operators and
\* differentiates, evaluates and prints them.
Spec == Init /\ [][Next]_vars

----------------------------------------------------------------------------
(* Parsing.  The texts are chains of one to three operands joined by       *)
(* binary operators, written with or without spaces around the operators.  *)

\* The operands of the texts: the literals, the names, a parenthesised
\* difference that folds to 0, and a function call.
Operands ==
    {NatToString(n) : n \in Literals} \cup Names \cup {"(2 - 2)", "sin(x)"}

\* a OP b
Chain(a, op, b, sp) == a \o sp \o op \o sp \o b

\* a OP1 b, and a OP1 b OP2 c
Chains2(sp) ==
    {Chain(a, op, b, sp) : a \in Operands, op \in BinaryOps, b \in Operands}
Chains3(sp) ==
    {Chain(t, op, c, sp) : t \in Chains2(sp), op \in BinaryOps, c \in Operands}

\* Two operands with no operator between them: a b and ab, the second one
\* also a parenthesised name.
Adjacent(sp) ==
    {a \o sp \o b : a \in Operands, b \in Operands \cup {"(i)"}}

\* -a
Minus(a) == "-" \o a

\* A '-' where an operand is expected: at the start of the text, after a
\* '(' and after a binary operator.
Negations(sp) ==
    {Minus(a) : a \in Operands}
    \cup {"(" \o Minus(a) \o ")" : a \in Operands}
    \cup {Chain(Minus(a), op, b, sp) :
              a \in Operands, op \in BinaryOps, b \in Operands}
    \cup {Chain(a, op, Minus(b), sp) :
              a \in Operands, op \in BinaryOps, b \in Operands}

\* What comes before and after a function name that is not called: the
\* name ends the text, or a space, a digit, an operator or a ')' follows.
BeforeName == {"", "x + ", "2", "(", "exp("}
AfterName == {"", " ", " (x)", " x", "2", "+x", ")"}
BareFunctions ==
    {b \o f \o a : b \in BeforeName, f \in functions, a \in AfterName}

\* Parentheses that do not match: a '(' never closed, a ')' never opened,
\* alone, around an operand, inside a chain and in a function call.
Unbalanced ==
    {"(", ")"}
    \cup UNION {{"(" \o a, a \o ")", "((" \o a \o ")", "(" \o a \o "))",
                "x + (" \o a, a \o ") + x", "sin(" \o a,
                "sin((" \o a \o ")"} : a \in Operands}

\* A literal so small that its square underflows, a quotient by it and
\* its square.
SmallDivisors == {"0.005", "x / 0.005", "0.005*0.005"}

\* Texts with no variable: calls of the functions on literals and on one
\* another, and chains of them.
ConstantCalls ==
    {f \o "(" \o a \o ")" : f \in functions, a \in {"0", "2"}}
    \cup {"exp(ln(2))", "sin(2 - cos(0))", "2 sin(2)", "-ln(0)"}
Constants ==
    ConstantCalls
    \cup {Chain(a, op, c, " ") :
              a \in {"2", "ln(0)"}, op \in BinaryOps, c \in ConstantCalls}

\* Logarithms of a name, of a multiple of it and of its square.
Logarithms == {"ln(x)", "ln(2 * x)", "ln(x * x)"}

\* An operator, then two operands with nothing between them: the pairs
\* <<a OP b, c>> of the texts a OP bc.
Juxtaposed ==
    {<<Chain(a, op, b, " "), c>> :
        a \in {"2", "x"}, op \in BinaryOps, b \in {"2", "(x)"},
        c \in {"x", "(i)", "sin(x)"}}

\* Operators with an operand missing: before the first operator, after the
\* last, on both sides, inside parentheses; and parentheses with nothing
\* in them.
Dangling ==
    {"()", "-", "2 + * x", "(+ x)"}
    \cup UNION {{op \o "x", "2 " \o op} : op \in BinaryOps}

\* No text, and nothing but spaces.
Blank == {"", " ", "  "}

\* Characters that are no token of an expression, alone, before and after
\* an operand and between two operands.
UnknownTokens == {"#", ","}
Unknown ==
    UnknownTokens
    \cup {a \o u : a \in Operands, u \in UnknownTokens}
    \cup {u \o a : a \in Operands, u \in UnknownTokens}
    \cup {a \o u \o b : a \in Operands, u \in UnknownTokens, b \in Operands}
    \cup {a \o " " \o u \o " " \o b :
              a \in Operands, u \in UnknownTokens, b \in Operands}

\* The integers and the halves up to MaxLit, of either sign: reals that
\* six decimals print exactly.
Halves == {Q(n, d) : n \in -MaxLit..MaxLit, d \in {1, 2}}

\* The values of a domain with such parts.
RoundTripValues(dom) ==
    IF dom = "R" THEN {Num(r, QInt(0)) : r \in Halves}
    ELSE {Num(r, m) : r \in Halves, m \in Halves}

\* What Literal a prints as, in either domain.
Renderings ==
    {ValueToString("R", v) : v \in RoundTripValues("R")}
    \cup {ValueToString("C", v) : v \in RoundTripValues("C")}

Texts ==
    Operands \cup Chains2(" ") \cup Chains3(" ") \cup Chains2("") \cup Chains3("")
    \cup Adjacent(" ") \cup Adjacent("")
    \cup Negations(" ") \cup Negations("")
    \cup BareFunctions \cup Unbalanced \cup Blank \cup Unknown
    \cup Renderings \cup SmallDivisors \cup Constants \cup Logarithms
    \cup {p[1] \o p[2] : p \in Juxtaposed} \cup Dangling

\* What a call of parse_expression that ran into undefined behaviour can
\* give: the process is killed, or the call returns whatever handle it
\* read, the empty one or one to any node.
UBOutcomes(r) ==
    {[NoRet EXCEPT !.err = "Crash", !.ub = TRUE]}
    \cup {[NoRet EXCEPT !.res = g, !.ub = TRUE] : g \in 0..Len(r.heap)}

\* parse_expression<_Domain>(text), the first call of a program
Parse ==
    /\ call.op = "none"
    /\ \E text \in Texts :
          LET r == parse_expression(domain, heap, text)
          IN  /\ heap' = r.heap
              /\ call' = [NoCall EXCEPT !.op = "parse", !.text = text]
              /\ IF r.err = "UB"
                 THEN ret' \in UBOutcomes(r)
                 ELSE ret' = [NoRet EXCEPT !.res = r.res, !.err = r.err]
    /\ UNCHANGED domain

NextParse ==
    \/ Parse
    \/ DoDiff
    \/ DoEval
    \/ DoToString

\* A program that parses a text and differentiates, evaluates and prints
\* the expression (main.cpp, test.cpp).
SpecParse == Init /\ [][NextParse]_vars

----------------------------------------------------------------------------
(* What the properties are stated with.                                    *)

\* The tree an expression-building call gave, or the exception it threw.
TreeOf(r) == IF r.err # "none" THEN <<"throw", r.err>> ELSE Tree(r.heap, r.res)

Threw(t) == t[1] = "throw"

RECURSIVE Raw(_, _)
\* Nodes for the tree t, put into the heap h as they are.
Raw(h, t) ==
    IF t[1] = "null" THEN Ret(h, 0)
    ELSE IF t[1] = "Value" THEN Alloc(h, ValueNode(t[2]))
    ELSE IF t[1] = "Variable" THEN Alloc(h, VariableNode(t[2]))
    ELSE IF t[1] \in BinaryKinds
    THEN LET a == Raw(h, t[2])
             b == Raw(a.heap, t[3])
         IN  InOrder(<<a, b, Alloc(b.heap, BinaryNode(t[1], a.res, b.res))>>)
    ELSE LET a == Raw(h, t[2])
         IN  InOrder(<<a, Alloc(a.heap, UnaryNode(t[1], a.res))>>)

\* The tree of l OP r, for the trees l and r, by the operator of Expression.
TBin(dom, op, l, r) ==
    IF Threw(l) THEN l
    ELSE IF Threw(r) THEN r
    ELSE LET a == Raw(<<>>, l)
             b == Raw(a.heap, r)
         IN  TreeOf(InOrder(<<a, b, ApplyOp(dom, b.heap, op, a.res, b.res)>>))

\* The tree of f(e), for the tree e, by the unary function of Expression.
TFn(f, e) ==
    IF Threw(e) THEN e
    ELSE LET a == Raw(<<>>, e) IN TreeOf(ApplyFn(a.heap, f, a.res))

TLit(n) == <<"Value", FromInt(n)>>
TVar(name) == <<"Variable", name>>

\* The tree the text of one operand parses to.
TOperand(dom, a) == TreeOf(parse_expression(dom, <<>>, a))

\* What the last call gave, as a tree; the heap before the last call.
Result == TreeOf([heap |-> heap, res |-> ret.res, err |-> ret.err])
Before == SubSeq(heap, 1, call.pre)

StartsWith(t, p) == Len(t) >= Len(p) /\ SubSeq(t, 1, Len(p)) = p

\* P(a, op1, b, op2, c) for every way to read the text parsed last as
\* a OP1 b OP2 c.
ForChain3(P(_, _, _, _, _)) ==
    call.op = "parse" =>
        \A sp \in {"", " "}, a \in Operands :
            StartsWith(call.text, a \o sp) =>
            \A op1 \in BinaryOps :
                StartsWith(call.text, a \o sp \o op1 \o sp) =>
                \A b \in Operands :
                    StartsWith(call.text, Chain(a, op1, b, sp) \o sp) =>
                    \A op2 \in BinaryOps, c \in Operands :
                        call.text = Chain(Chain(a, op1, b, sp), op2, c, sp)
                        => P(a, op1, b, op2, c)

----------------------------------------------------------------------------
(* The properties.                                                         *)

\* OP2 binds tighter than OP1: + and - lowest, * and / above, ^ highest.
Tighter(op2, op1) ==
    \/ op1 \in {"+", "-"} /\ op2 \in {"*", "/", "^"}
    \/ op1 \in {"*", "/"} /\ op2 = "^"
C1_Groups(a, op1, b, op2, c) ==
    Tighter(op2, op1) =>
        Result = TBin(domain, op1, TOperand(domain, a),
                      TBin(domain, op2, TOperand(domain, b),
                           TOperand(domain, c)))

\* C1: parse_expression honours precedence: where OP2 binds tighter than
\* OP1, the text "a OP1 b OP2 c" parses to OP1(a, OP2(b, c)), built by the
\* operators of Expression (the same tree, or the same exception); and
\* "2 + 2 * 2" evaluates to 6.
C1_Precedence ==
    /\ ForChain3(C1_Groups)
    /\ call.op = "parse" /\ call.text = "2 + 2 * 2" =>
           /\ ret.err = "none"
           /\ eval(domain, heap, ret.res, <<>>) = {Val(FromInt(6))}

C1_Witness ==
    /\ call.op = "parse"
    /\ call.text = "x + i * 2"
    /\ Result = <<"Add", TVar("x"), <<"Multiply", TVar("i"), TLit(2)>>>>

SameLevel(op1, op2) == ~Tighter(op1, op2) /\ ~Tighter(op2, op1)
C2_Groups(a, op1, b, op2, c) ==
    SameLevel(op1, op2) =>
        Result = TBin(domain, op2,
                      TBin(domain, op1, TOperand(domain, a),
                           TOperand(domain, b)),
                      TOperand(domain, c))

\* C2: operators of equal precedence, ^ included, group to the left: the
\* text "a OP1 b OP2 c" parses to OP2(OP1(a, b), c), built by the operators
\* of Expression (the same tree, or the same exception).
C2_LeftAssociative == ForChain3(C2_Groups)

C2_Witness ==
    /\ call.op = "parse"
    /\ call.text = "x ^ i ^ 2"
    /\ Result = <<"Power", <<"Power", TVar("x"), TVar("i")>>, TLit(2)>>

\* The node diff, eval or to_string was called on last, and its tree.
Node == Before[call.lhs]
Subject == Tree(Before, call.lhs)
DiffCalled == call.op = "diff" /\ call.lhs # 0

\* diff(e, name) of the last call, for a child e of its node.
D(e) == TreeOf(diff(domain, Before, e, call.name))

\* The rule table, applied to the node diff was called on.
RuleTable ==
    LET n == Node
        l == Tree(Before, n.lhs)
        r == Tree(Before, n.rhs)
        e == Tree(Before, n.expr)
        B(op, a, b) == TBin(domain, op, a, b)
    IN  CASE n.kind = "Value" -> TLit(0)
          [] n.kind = "Variable" ->
                IF n.variable = call.name THEN TLit(1) ELSE TLit(0)
          [] n.kind = "Add" -> B("+", D(n.lhs), D(n.rhs))
          [] n.kind = "Subtract" -> B("-", D(n.lhs), D(n.rhs))
          [] n.kind = "Multiply" ->
                B("+", B("*", D(n.lhs), r), B("*", l, D(n.rhs)))
          [] n.kind = "Divide" ->
                B("/", B("-", B("*", D(n.lhs), r), B("*", l, D(n.rhs))),
                       B("*", r, r))
          [] n.kind = "Sin" -> B("*", TFn("cos", e), D(n.expr))
          [] n.kind = "Cos" ->
                B("*", B("*", TLit(-1), TFn("sin", e)), D(n.expr))
          [] n.kind = "Exp" -> B("*", e, D(n.expr))

\* C3: diff(node, name) is the tree the rule table gives with the
\* simplifying operators, for Literal, Variable, Add, Subtract, Multiply,
\* Divide, Sin, Cos and Exp nodes; and the derivative of x * sin(x) by x
\* renders as "(sin(x) + (x * cos(x)))".
C3_RuleTable ==
    DiffCalled =>
        /\ Node.kind \notin {"Power", "Ln"} => Result = RuleTable
        /\ Subject = <<"Multiply", TVar("x"), <<"Sin", TVar("x")>>>>
           /\ call.name = "x"
           => to_string(domain, heap, ret.res) = "(sin(x) + (x * cos(x)))"

C3_Witness ==
    /\ DiffCalled
    /\ call.name = "x"
    /\ Subject = <<"Multiply", TVar("x"), <<"Sin", TVar("x")>>>>
    /\ Result = <<"Add", <<"Sin", TVar("x")>>,
                         <<"Multiply", TVar("x"), <<"Cos", TVar("x")>>>>>>

\* l^r * (diff(r) * ln(l) + (r * diff(l)) / l), and r * l^(r - 1) * diff(l),
\* for the Power node diff was called on.
GeneralPowerRule ==
    LET l == Tree(Before, Node.lhs)
        r == Tree(Before, Node.rhs)
        B(op, a, b) == TBin(domain, op, a, b)
    IN  B("*", B("^", l, r),
               B("+", B("*", D(Node.rhs), TFn("ln", l)),
                      B("/", B("*", r, D(Node.lhs)), l)))
ConstantPowerRule ==
    LET l == Tree(Before, Node.lhs)
        r == Tree(Before, Node.rhs)
        B(op, a, b) == TBin(domain, op, a, b)
    IN  B("*", B("*", r, B("^", l, B("-", r, TLit(1)))), D(Node.lhs))

\* C4: diff of a Power(l, r) node by a name n is the tree
\* l^r * (diff(r) * ln(l) + (r * diff(l)) / l) built with the simplifying
\* operators, whatever l and r; where the exponent is the variable n
\* itself it is not what the constant-exponent formula gives.
C4_PowerRule ==
    DiffCalled /\ Node.kind = "Power" =>
        /\ Result = GeneralPowerRule
        /\ Tree(Before, Node.rhs) = TVar(call.name)
           /\ ~IsValue(Before, Node.lhs)
           => Result # ConstantPowerRule

C4_Witness ==
    /\ DiffCalled
    /\ call.name = "x"
    /\ Subject = <<"Power", TVar("x"), TVar("x")>>
    /\ Result = <<"Multiply", <<"Power", TVar("x"), TVar("x")>>,
                     <<"Add", <<"Ln", TVar("x")>>,
                              <<"Divide", TVar("x"), TVar("x")>>>>>>

\* The last call was the binary operator op of Expression.
Applied(op) == call.op = op /\ call.lhs # 0 /\ call.rhs # 0
\* It gave back the node e itself and allocated nothing.
SameNode(e) == ret.err = "none" /\ ret.res = e /\ Len(heap) = call.pre
LhsIs(n) == IsValue(Before, call.lhs) /\ Before[call.lhs].value = FromInt(n)
RhsIs(n) == IsValue(Before, call.rhs) /\ Before[call.rhs].value = FromInt(n)
LhsNonLiteral == ~IsValue(Before, call.lhs)
RhsNonLiteral == ~IsValue(Before, call.rhs)

\* C5: for a non-literal e, the operators e+0, 0+e, e-0, e*1, 1*e, e/1 and
\* e^1 return a handle to the node of e and allocate nothing, and e*0, 0*e
\* and 0/e return a Literal 0.
C5_Identities ==
    /\ Applied("+") /\ LhsNonLiteral /\ RhsIs(0) => SameNode(call.lhs)
    /\ Applied("+") /\ LhsIs(0) /\ RhsNonLiteral => SameNode(call.rhs)
    /\ Applied("-") /\ LhsNonLiteral /\ RhsIs(0) => SameNode(call.lhs)
    /\ Applied("*") /\ LhsNonLiteral /\ RhsIs(1) => SameNode(call.lhs)
    /\ Applied("*") /\ LhsIs(1) /\ RhsNonLiteral => SameNode(call.rhs)
    /\ Applied("/") /\ LhsNonLiteral /\ RhsIs(1) => SameNode(call.lhs)
    /\ Applied("^") /\ LhsNonLiteral /\ RhsIs(1) => SameNode(call.lhs)
    /\ Applied("*") /\ LhsNonLiteral /\ RhsIs(0) => Result = TLit(0)
    /\ Applied("*") /\ LhsIs(0) /\ RhsNonLiteral => Result = TLit(0)
    /\ Applied("/") /\ LhsIs(0) /\ RhsNonLiteral => Result = TLit(0)

C5_Witness ==
    /\ Applied("-")
    /\ Before[call.lhs] = VariableNode("x")
    /\ RhsIs(0)
    /\ SameNode(call.lhs)

\* C6: for a non-literal e, e.pow(Literal 0) returns a Literal 1.
C6_PowZero ==
    Applied("^") /\ LhsNonLiteral /\ RhsIs(0) => Result = TLit(1)

\* C7: a division by a Literal zero throws DivisionByZero where it is
\* built, whatever the dividend (x / 0, 2 / 0, 0 / 0) and also for a
\* divisor that folds to zero ("x / (2 - 2)"); no Divide node has a
\* Literal zero for its divisor.
C7_ZeroDivisor ==
    /\ \A e \in Handles :
           heap[e].kind = "Divide" => ~IsValueZero(heap, heap[e].rhs)
    /\ call.op = "parse" =>
           \A sp \in {"", " "}, a \in Operands, b \in {"0", "(2 - 2)"} :
               call.text = Chain(a, "/", b, sp) =>
                   ret.err = "DivisionByZero"

C7_Witness ==
    /\ call.op = "parse"
    /\ call.text = "x / (2 - 2)"
    /\ ret.err = "DivisionByZero"

EvalCalled == call.op = "eval" /\ call.lhs # 0

\* C8: eval of a Divide node whose divisor evaluates to zero under the
\* bindings throws DivisionByZero, as 1 / x does with x bound to 0.
C8_DivideEval ==
    EvalCalled /\ Node.kind = "Divide" =>
        /\ eval(domain, heap, Node.rhs, call.variables) = {Val(Zero)}
           => ret.err = "DivisionByZero"
        /\ Subject = <<"Divide", TLit(1), TVar("x")>>
           /\ "x" \in DOMAIN call.variables
           /\ call.variables["x"] = Zero
           => ret.err = "DivisionByZero"

C8_Witness ==
    /\ EvalCalled
    /\ Subject = <<"Divide", TLit(1), TVar("x")>>
    /\ "x" \in DOMAIN call.variables
    /\ call.variables["x"] = Zero
    /\ ret.err = "DivisionByZero"

Returned(v) == ret.err = "none" /\ ret.val = v

\* C9: eval of a Variable node named v returns the binding of v when there
\* is one, for "i" too, and throws UnboundVariable when there is none and
\* v is not "i"; x + k is the binding of x plus k, and throws with x
\* unbound.
C9_VariableEval ==
    EvalCalled =>
        /\ Node.kind = "Variable" =>
            /\ Node.variable \in DOMAIN call.variables
               => Returned(call.variables[Node.variable])
            /\ Node.variable \notin DOMAIN call.variables
               /\ Node.variable # "i"
               => ret.err = "UnboundVariable"
        /\ \A k \in Literals :
               Subject = <<"Add", TVar("x"), TLit(k)>> =>
                   IF "x" \in DOMAIN call.variables
                   THEN Returned(ValAdd(call.variables["x"], FromInt(k)))
                   ELSE ret.err = "UnboundVariable"

C9_Witness ==
    /\ EvalCalled
    /\ Node = VariableNode("i")
    /\ "i" \in DOMAIN call.variables
    /\ call.variables["i"] = FromInt(2)
    /\ Returned(FromInt(2))

\* C10: in the real domain, eval of Variable "i" with no binding for "i"
\* throws UnboundVariable.
C10_RealImaginaryUnit ==
    EvalCalled /\ domain = "R" /\ Node = VariableNode("i")
    /\ "i" \notin DOMAIN call.variables
    => ret.err = "UnboundVariable"

\* The last call was the unary function f of Expression, on a Literal.
AppliedToLiteral(f) == call.op = f /\ IsValue(Before, call.lhs)

\* C11: ln applied to a Literal whose value, or the real part of whose
\* value in the complex domain, is not positive throws DomainError where it
\* is built.
C11_LnLiteral ==
    AppliedToLiteral("ln") /\ Before[call.lhs].value.re.n <= 0
    => ret.err = "DomainError"

\* The one outcome of evaluating the argument of the node eval was called
\* on, where there is one outcome and it is an exact value.
ArgumentValues ==
    {a \in eval(domain, heap, Node.expr, call.variables) :
        /\ eval(domain, heap, Node.expr, call.variables) = {a}
        /\ a.err = "none"
        /\ IsNum(a.val)}

\* C12: eval of an Ln node throws DomainError when its argument evaluates
\* to a value that is not positive (whose real part is not positive, in the
\* complex domain), and returns the logarithm of that value otherwise.
C12_LnEval ==
    EvalCalled /\ Node.kind = "Ln" =>
        \A a \in ArgumentValues :
            IF a.val.re.n <= 0 THEN ret.err = "DomainError"
            ELSE Returned(std_log(a.val))

C12_Witness ==
    /\ EvalCalled
    /\ Subject = <<"Ln", TVar("x")>>
    /\ "x" \in DOMAIN call.variables
    /\ call.variables["x"] = Zero
    /\ ret.err = "DomainError"

ParseCalled == call.op = "parse"

\* The first and the last character of a text, "" for the empty text.
First(t) == IF t = "" THEN "" ELSE SubSeq(t, 1, 1)
Last(t) == IF t = "" THEN "" ELSE SubSeq(t, Len(t), Len(t))

\* a and b written one after the other are two tokens: there is a space
\* between them, or the characters that meet are not two of a number and
\* not two of an identifier.
TwoTokens(a, sp, b) ==
    \/ sp = " "
    \/ /\ ~(Last(a) \in Digits /\ First(b) \in Digits)
       /\ ~(Last(a) \in Letters /\ First(b) \in Letters)

\* C13: an operand read where the previous token already gave an operand is
\* multiplied with it, whatever kind of token it is (a number, a name, a
\* function call, a parenthesis): "a b" parses to a * b, built by the
\* operators of Expression.
C13_ImplicitTimes ==
    ParseCalled =>
        \A sp \in {"", " "}, a \in Operands, b \in Operands \cup {"(i)"} :
            call.text = a \o sp \o b /\ TwoTokens(a, sp, b) =>
                Result = TBin(domain, "*", TOperand(domain, a),
                              TOperand(domain, b))

\* The tree of -1 * a, for the text a of an operand.
Negative(a) == TBin(domain, "*", TLit(-1), TOperand(domain, a))

\* -a OP b: the synthesized '*' groups as a written '*' does.
NegatedFirst(a, op, b) ==
    IF op = "^"
    THEN TBin(domain, "*", TLit(-1),
              TBin(domain, "^", TOperand(domain, a), TOperand(domain, b)))
    ELSE TBin(domain, op, Negative(a), TOperand(domain, b))

\* C14: a '-' read where an operand is expected (at the start, after '(',
\* after an operator) is not a subtraction but Literal -1 times the operand
\* that follows: "-a" and "(-a)" parse to -1 * a, "a OP -b" to
\* a OP (-1 * b), "-a OP b" to (-1 * a) OP b or, for ^, to -1 * (a ^ b);
\* "-x ^ 2" is Multiply(-1, Power(x, 2)).
C14_UnaryMinus ==
    ParseCalled =>
        /\ First(call.text) \in {"-", "("} =>
               \A a \in Operands :
                   call.text \in {Minus(a), "(" \o Minus(a) \o ")"} =>
                       Result = Negative(a)
        /\ First(call.text) = "-" =>
               \A sp \in {"", " "}, a \in Operands, op \in BinaryOps,
                     b \in Operands :
                   call.text = Chain(Minus(a), op, b, sp) =>
                       Result = NegatedFirst(a, op, b)
        /\ \A sp \in {"", " "}, a \in Operands, op \in BinaryOps :
               StartsWith(call.text, a \o sp \o op \o sp \o "-") =>
                   \A b \in Operands :
                       call.text = Chain(a, op, Minus(b), sp) =>
                           Result = TBin(domain, op, TOperand(domain, a),
                                         Negative(b))
        /\ call.text = "-x ^ 2" =>
               Result = <<"Multiply", TLit(-1),
                          <<"Power", TVar("x"), TLit(2)>>>>

C14_Witness ==
    /\ ParseCalled
    /\ call.text = "2 - -x"
    /\ Result = <<"Subtract", TLit(2), <<"Multiply", TLit(-1), TVar("x")>>>>

\* parse threw the exception e and returned no expression.
ParseFailed(e) == ret.err = e /\ ret.res = 0 /\ ~ret.ub

\* C15: a text in which one of the names sin, cos, ln, exp is read with no
\* '(' right after it (the text ends there, or a space or any other
\* character follows) fails to parse with SyntaxError.
C15_BareFunction ==
    ParseCalled =>
        \A b \in BeforeName, f \in functions :
            StartsWith(call.text, b \o f) =>
                \A a \in AfterName :
                    /\ call.text = b \o f \o a
                    /\ a = "" \/ First(a) \notin Letters \cup {"("}
                    => ParseFailed("SyntaxError")

C15_Witness ==
    /\ ParseCalled
    /\ call.text = "x + sin (x)"
    /\ ParseFailed("SyntaxError")

RECURSIVE Balanced(_, _)
\* The parentheses of the text t match, d of them being open before it.
Balanced(t, d) ==
    IF t = "" THEN d = 0
    ELSE IF First(t) = "(" THEN Balanced(Tail(t), d + 1)
    ELSE IF First(t) = ")" THEN d > 0 /\ Balanced(Tail(t), d - 1)
    ELSE Balanced(Tail(t), d)

\* C16: a text whose parentheses do not match (a ')' with no '(' open, a
\* '(' still open at the end, a function call never closed) fails to parse
\* with SyntaxError.
C16_Unbalanced ==
    ParseCalled /\ ~Balanced(call.text, 0) => ParseFailed("SyntaxError")

\* Every character of the text t is one of the set S.
AllIn(t, S) == \A k \in 1..Len(t) : SubSeq(t, k, k) \in S

\* C17: the empty text, and a text of nothing but whitespace, fail to
\* parse with SyntaxError.
C17_Blank ==
    ParseCalled /\ AllIn(call.text, {" "}) => ParseFailed("SyntaxError")

\* The characters an expression is written with.
KnownCharacters ==
    {" ", ".", "(", ")"} \cup Digits \cup Letters \cup BinaryOps

\* C18: a text with a character that is no whitespace, digit, '.', letter,
\* parenthesis or operator fails to parse with SyntaxError.
C18_UnknownToken ==
    ParseCalled /\ ~AllIn(call.text, KnownCharacters)
    => ParseFailed("SyntaxError")

\* C19: the text Literal a prints as parses, in the domain of a, to an
\* expression that evaluates to a with no bindings, for the values a of
\* either domain that print exactly, the negative ones and the complex
\* ones with an imaginary part included.
C19_LiteralRoundTrip ==
    ParseCalled =>
        \A a \in RoundTripValues(domain) :
            call.text = ValueToString(domain, a) =>
                /\ ret.err = "none" /\ ~ret.ub
                /\ eval(domain, heap, ret.res, <<>>) = {Val(a)}

\* The same for the real domain only.
RealRoundTrip == domain = "R" => C19_LiteralRoundTrip

\* What a call that builds an expression gave, as text: the canonical
\* string of the expression, or the exception.
Rendered(r) ==
    IF r.err # "none" THEN "throw " \o r.err
    ELSE to_string(domain, r.heap, r.res)

\* (f + g).diff(x), for the sum f + g the last call returned.
DiffOfSum(x) == diff(domain, heap, ret.res, x)

\* f.diff(x) + g.diff(x), for the operands f and g of the last call.
SumOfDiffs(x) ==
    LET a == diff(domain, heap, call.lhs, x)
        b == diff(domain, a.heap, call.rhs, x)
    IN  InOrder(<<a, b, IF a.err # "none" THEN a
                       ELSE IF b.err # "none" THEN b
                       ELSE OpPlus(b.heap, a.res, b.res)>>)

RECURSIVE Rebuild(_, _, _)
\* The tree at e built again from its leaves: each node's operator applied
\* to its children built again.
Rebuild(dom, h, e) ==
    LET n == h[e]
    IN  IF n.kind \in {"Value", "Variable"} THEN Ret(h, e)
        ELSE IF n.kind \in UnaryKinds
        THEN LET a == Rebuild(dom, h, n.expr)
             IN  InOrder(<<a, IF a.err # "none" THEN a
                              ELSE ApplyFn(a.heap, Symbol(n.kind), a.res)>>)
        ELSE LET a == Rebuild(dom, h, n.lhs)
                 b == IF a.err # "none" THEN a
                      ELSE Rebuild(dom, a.heap, n.rhs)
             IN  InOrder(<<a, b, IF b.err # "none" THEN b
                                 ELSE ApplyOp(dom, b.heap, Symbol(n.kind),
                                              a.res, b.res)>>)

\* The last call was parse_expression or diff and returned an expression.
Produced == call.op \in {"parse", "diff"} /\ ret.err = "none" /\ ret.res # 0

\* C21: the tree parse_expression or diff returned, built again bottom-up
\* by applying each node's simplifying operator to its rebuilt children,
\* prints the same canonical string: no simplification rule applies to a
\* tree the operators built.
C21_Idempotent ==
    Produced =>
        Rendered(Rebuild(domain, heap, ret.res))
            = to_string(domain, heap, ret.res)

\* A derivative that is a tree of several operator nodes is rebuilt to
\* the same string.
C21_Witness ==
    /\ call.op = "diff"
    /\ Produced
    /\ heap[ret.res].kind = "Add"
    /\ heap[heap[ret.res].lhs].kind = "Multiply"
    /\ Rendered(Rebuild(domain, heap, ret.res))
           = to_string(domain, heap, ret.res)

\* C22: diff throws nothing: whatever tree it is called on and whatever the
\* name, the call returns an expression, with neither DivisionByZero nor
\* DomainError raised while the derivative is built.
C22_DiffNeverFails == call.op = "diff" => ret.err = "none"

\* C23: no step changes a node that exists: the heap after a call of an
\* operator, of diff, eval or to_string is the heap before it with new
\* nodes, if any, added at the end, so every handle, the arguments of the
\* call among them, refers to the node it referred to.
C23_Immutable ==
    [][Len(heap') >= Len(heap) /\ SubSeq(heap', 1, Len(heap)) = heap]_vars

\* An operator simplified a product with Literal 0 and left its operands,
\* a Variable and the Literal, as they were.
C23_Witness ==
    /\ Applied("*")
    /\ Before[call.lhs].kind = "Variable"
    /\ IsValueZero(Before, call.rhs)
    /\ Len(heap) = call.pre + 1
    /\ ret.res = Len(heap)
    /\ heap[call.lhs] = Before[call.lhs]
    /\ heap[call.rhs] = Before[call.rhs]

RECURSIVE VariableFree(_, _)
\* Every letter of t from position i on belongs to the name of a function
\* that is called.
VariableFree(t, i) ==
    IF i > Len(t) THEN TRUE
    ELSE IF ~isalpha(SubSeq(t, i, i)) THEN VariableFree(t, i + 1)
    ELSE \E f \in functions :
            /\ StartsWith(SubSeq(t, i, Len(t)), f \o "(")
            /\ VariableFree(t, i + Len(f) + 1)

\* The text parsed last has only characters of the grammar and balanced
\* parentheses, and the parser found an operand wherever it took one.
WellFormed ==
    /\ AllIn(call.text, KnownCharacters)
    /\ Balanced(call.text, 0)
    /\ ~ret.ub

\* C24: a well-formed text with no identifier but the functions it calls
\* either fails to parse or parses to a single Literal node, never to an
\* operator or function node.
C24_ConstantFolding ==
    ParseCalled /\ WellFormed /\ VariableFree(call.text, 1) =>
        ret.err # "none" \/ IsValue(heap, ret.res)

\* A product of a literal and a function call folded to one Literal whose
\* value is what libm gave.
C24_Witness ==
    /\ ParseCalled
    /\ call.text = "2 * sin(2)"
    /\ WellFormed
    /\ IsValue(heap, ret.res)
    /\ heap[ret.res].value
           = Sym("*", <<FromInt(2), Sym("sin", <<FromInt(2)>>)>>)

\* C25: diff of the Variable "i" by any name, the name "i" included, is
\* the Literal 0.
C25_ImaginaryUnitDiff ==
    DiffCalled /\ Node = VariableNode("i") => Result = TLit(0)

\* The argument of the unary node diff was called on, as a tree.
Argument == Tree(Before, Node.expr)

\* C26, as stated: diff of Ln(e) is the tree of diff(e) / e, the division
\* being the simplifying operator/, for every argument e.
C26_LnQuotient ==
    DiffCalled /\ Node.kind = "Ln" =>
        Result = TBin(domain, "/", D(Node.expr), Argument)

\* C26, amended: diff of Ln(e) is the tree of (1 / e) * diff(e), built with
\* the simplifying operator/ and operator*: the Divide node 1 / e where
\* diff(e) is Literal 1, Literal 0 where diff(e) is Literal 0, and a
\* Multiply node of the Divide node 1 / e and diff(e) otherwise.
C26_LnRule ==
    DiffCalled /\ Node.kind = "Ln" =>
        Result = TBin(domain, "*", TBin(domain, "/", TLit(1), Argument),
                      D(Node.expr))

\* The derivative of ln(2 * x) by x is (1 / (2 * x)) * 2.
C26_Witness ==
    /\ DiffCalled
    /\ call.name = "x"
    /\ Subject = <<"Ln", <<"Multiply", TLit(2), TVar("x")>>>>
    /\ Result = <<"Multiply",
                  <<"Divide", TLit(1), <<"Multiply", TLit(2), TVar("x")>>>>,
                  TLit(2)>>

\* The tree the text l * r parses to, the '*' written out.
Explicit(l, r) == TreeOf(parse_expression(domain, <<>>, l \o " * " \o r))

\* C27: a text in which two operands stand next to each other parses to
\* the tree of the text with '*' written between them: the '*' the parser
\* supplies is handled as a '*' token is.
C27_ImplicitLikeExplicit ==
    ParseCalled =>
        \A p \in Juxtaposed :
            call.text = p[1] \o p[2] => Result = Explicit(p[1], p[2])

\* The stacks of the parser once the token loop and the drain have run on
\* the text parsed last; err is "UB" where an apply step found fewer than
\* two operands (or a ')' found no operator to pop).
Drained ==
    Drain(domain, ParseLoop(domain, call.text,
        [i |-> 0, values |-> <<>>, ops |-> <<>>, expect_operand |-> TRUE,
         heap |-> <<>>, err |-> "none"]))

\* p occurs in t.
Contains(t, p) ==
    \E i \in 1..Len(t) : StartsWith(SubSeq(t, i, Len(t)), p)

\* The text parsed last calls no function, so that its operators are all
\* applied by the one call of parse_expression.
NoCalls == \A f \in functions : ~Contains(call.text, f \o "(")

\* C28: for a text that is not empty and has balanced parentheses, every
\* operator the parser pops to apply finds two operands on the value
\* stack: on ')', on a binary operator and in the final drain.
C28_TwoOperands ==
    ParseCalled /\ call.text # "" /\ Balanced(call.text, 0) /\ NoCalls =>
        Drained.err # "UB"

\* What eval of the dividend and of the divisor of the Divide node gives
\* under the bindings of the last call.
Dividend == eval(domain, heap, Node.lhs, call.variables)
Divisor == eval(domain, heap, Node.rhs, call.variables)

\* C29: eval of a Divide node evaluates the divisor first: where the
\* divisor evaluates to zero the call throws DivisionByZero even if
\* evaluating the dividend would throw something else, the dividend not
\* being evaluated at all.
C29_DivisorFirst ==
    EvalCalled /\ Node.kind = "Divide" /\ Divisor = {Val(Zero)}
    /\ (\A a \in Dividend : a.err # "none")
    => ret.err = "DivisionByZero"

\* x / i with i bound to 0 and x unbound: DivisionByZero, not
\* UnboundVariable.
C29_Witness ==
    /\ EvalCalled
    /\ Subject = <<"Divide", TVar("x"), TVar("i")>>
    /\ DOMAIN call.variables = {"i"}
    /\ Divisor = {Val(Zero)}
    /\ Dividend = {Fail("UnboundVariable")}
    /\ ret.err = "DivisionByZero"

\* The trees of the Power node x ^ c, for the Literal c, and of what
\* operator* and operator/ make of (x ^ c) * (c / x).
PowerOf(c) == <<"Power", TVar("x"), TLit(c)>>
PowerDerivative(c) ==
    <<"Multiply", PowerOf(c), <<"Divide", TLit(c), TVar("x")>>>>

\* eval of the expression the last call returned, with x bound to v.
AtX(v) == eval(domain, heap, ret.res, [n \in {"x"} |-> FromInt(v)])

\* C30: diff by x of the Power node x ^ c, for a Literal c other than 0 and
\* 1, is the tree (x ^ c) * (c / x); eval of it with x bound to 0 throws
\* DivisionByZero, and for c = 2 with x bound to 2 it returns 4 (in the
\* real domain, where std::pow of two integers is exact; the complex
\* std::pow goes through exp and log).
C30_PowerDerivative ==
    \A c \in Literals \ {0, 1} :
        DiffCalled /\ call.name = "x" /\ Subject = PowerOf(c) =>
            /\ Result = PowerDerivative(c)
            /\ AtX(0) = {Fail("DivisionByZero")}
            /\ c = 2 /\ domain = "R" => AtX(2) = {Val(FromInt(4))}

\* The derivative of x ^ 2 by x, which is 4 at x = 2 and fails at x = 0.
C30_Witness ==
    /\ DiffCalled
    /\ call.name = "x"
    /\ Subject = PowerOf(2)
    /\ domain = "R"
    /\ Result = PowerDerivative(2)
    /\ AtX(0) = {Fail("DivisionByZero")}
    /\ AtX(2) = {Val(FromInt(4))}

====
